---------------------------- MODULE Spec2Model ----------------------------
(***************************************************************************)
(* WebcamCapture (src/src/aquarium/capture/webcam_capture.py): a threaded  *)
(* wrapper around cv2.VideoCapture.  One acquisition worker thread runs    *)
(* _capture_loop; caller threads run start, stop, get_frame,               *)
(* get_frame_for_inference, fps_actual and the property setters.           *)
(*                                                                         *)
(* Every thread advances one statement (or one lock-protected block) per   *)
(* step; pc[t] is the statement thread t executes next.  The device behind *)
(* the handle is nondeterministic: open() and read() may succeed or fail.  *)
(***************************************************************************)
EXTENDS Integers, Sequences, FiniteSets, TLC

(***************************************************************************)
(* Bounds of the model.                                                    *)
(***************************************************************************)
\* Thread objects that can exist at once (slots for threading.Thread).
MaxThreads == 2
\* Successful device reads over a run (each yields a distinct frame).
MaxReads == 3
\* Largest buffer_size handed to the constructor.
MaxBuf == 2
\* Largest fps_window handed to the constructor.
MaxWin == 2
\* The same where fps_actual is read.
MaxFpsWin == 3
\* Largest width or height the device supports (larger requests are clamped).
MaxDev == 2
\* Largest value of the clock.
MaxClock == 3

(***************************************************************************)
(* Threads.  Workers are Thread-object slots; a slot whose thread has      *)
(* exited and that nothing references any more is reused by a later        *)
(* threading.Thread(...).                                                  *)
(***************************************************************************)
Workers == 1..MaxThreads
\* The thread that constructed the object.
Main == MaxThreads + 1
\* A second caller thread.
Other == MaxThreads + 2
Callers == {Main, Other}
Threads == Workers \cup Callers

None == 0
NoRes == <<0, 0>>

\* The mode a freshly opened device reports.
DefaultRes == <<1, 1>>
\* Resolutions the constructor or the capture_resolution setter is handed:
\* unset, and one the device clamps.
CaptureChoices == {<<0, 0>>, <<MaxDev + 1, MaxDev + 1>>}
\* Inference resolutions: pass-through, and a size.
InferenceChoices == {<<0, 0>>, <<2, 2>>}

VARIABLES
    cap,                  \* self.cap: [open, res], the handle and the device mode
    thread,               \* self._thread: None or a worker
    stop_event,           \* self._stop_event
    frame_buffer,         \* self._frame_buffer: sequence of frame references
    buffer_size,          \* self.buffer_size
    buffer_lock,          \* self._buffer_lock: None or the thread holding it
    frame_available,      \* self._frame_available
    frame_times,          \* self._frame_times
    times_maxlen,         \* maxlen of self._frame_times
    capture_resolution,   \* self._capture_resolution
    native_resolution,    \* self._native_resolution
    inference_resolution, \* self._inference_resolution
    heap,                 \* frame objects (numpy arrays) by reference
    clock,                \* time.monotonic()
    pc,                   \* next statement of every thread
    loc,                  \* local variables of every thread
    nread,                \* history: successful device reads so far
    appended,             \* history: the image of every frame appended
    nstamps,              \* history: timestamps appended so far
    npublished,           \* history: times _frame_available.set() has run
    configured,           \* history: settings applied since the handle opened
    gh                    \* history: per-worker counters

progVars == <<cap, thread, stop_event, frame_buffer, buffer_size, buffer_lock,
              frame_available, frame_times, times_maxlen, capture_resolution,
              native_resolution, inference_resolution, heap, clock>>
histVars == <<nread, appended, nstamps, npublished, configured, gh>>
vars == <<progVars, pc, loc, histVars>>

(***************************************************************************)
(* Helpers.                                                                *)
(***************************************************************************)
Max(a, b) == IF a >= b THEN a ELSE b
Min(a, b) == IF a <= b THEN a ELSE b
Last(s) == s[Len(s)]

\* The last n elements of s (all of s when it is shorter).
LastN(s, n) == SubSeq(s, Len(s) - Min(Len(s), n) + 1, Len(s))

\* Thread.is_alive(): started and not yet finished.
IsAlive(w) == pc[w] \notin {"free", "new", "dead"}
Alive == {w \in Workers : IsAlive(w)}

\* Locals of a thread that is in no call.  A caller that is in no call keeps
\* the name of the call that returned last (op), what it returned (ret) and,
\* for start, the thread it launched (spawned).
NoLoc == [op |-> "none", ret |-> None, spawned |-> None, cfg |-> NoRes,
          got |-> NoRes, frame |-> None, target |-> NoRes, join |-> None]

\* Per-worker history.
\*   fails: open and read attempts since the last failed one, that one
\*          included, with no sleep in between;
\*   wedge: "wedged" from a failed read until the handle is released,
\*          "recovered" from then on;
\*   reads, sleeps, releases: those made since stop() raised the stop signal.
NoGh == [fails |-> 0, wedge |-> "none", reads |-> 0, sleeps |-> 0, releases |-> 0]

\* fails after one more attempt.
Attempted(n, ok) == IF n > 0 THEN n + 1 ELSE IF ok THEN 0 ELSE 1

\* References: device frames are numbered by read, each caller owns one slot
\* for the array get_frame() or cv2.resize() hands it.
CopyRef(c) == MaxReads + c
Refs == (1..MaxReads) \cup {CopyRef(c) : c \in Callers}
NoObj == [px |-> 0, res |-> NoRes]

(***************************************************************************)
(* The capture device (cv2.VideoCapture).                                  *)
(***************************************************************************)
\* What the device settles on when asked for dimension d.
Clamp(d) == IF d > MaxDev THEN MaxDev ELSE d

\* cap.set(CAP_PROP_FRAME_WIDTH, w): ignored by a closed handle.
DevSetWidth(c, w) == IF c.open THEN [c EXCEPT !.res = <<Clamp(w), c.res[2]>>] ELSE c
DevSetHeight(c, h) == IF c.open THEN [c EXCEPT !.res = <<c.res[1], Clamp(h)>>] ELSE c
\* cap.get(prop): 0 on a closed handle.
DevGetWidth(c) == IF c.open THEN c.res[1] ELSE 0
DevGetHeight(c) == IF c.open THEN c.res[2] ELSE 0
DevOpened == [open |-> TRUE, res |-> DefaultRes]
DevClosed == [open |-> FALSE, res |-> NoRes]

(***************************************************************************)
(* __init__, lines 25-52.                                                  *)
(***************************************************************************)
\* The object built with an fps_window among wins.
Constructed(wins) ==
    /\ \E o \in BOOLEAN : cap = IF o THEN DevOpened ELSE DevClosed
    /\ thread = None
    /\ stop_event = FALSE
    /\ frame_buffer = <<>>
    /\ \E n \in 0..MaxBuf : buffer_size = Max(1, n)
    /\ buffer_lock = None
    /\ frame_available = FALSE
    /\ frame_times = <<>>
    /\ \E n \in wins : times_maxlen = Max(2, n)
    /\ capture_resolution \in CaptureChoices
    /\ native_resolution = NoRes
    /\ inference_resolution \in InferenceChoices
    /\ heap = [r \in Refs |-> NoObj]
    /\ clock = 0
    /\ pc = [t \in Threads |-> IF t \in Workers THEN "free" ELSE "idle"]
    /\ loc = [t \in Threads |-> NoLoc]
    /\ nread = 0
    /\ appended = <<>>
    /\ nstamps = 0
    /\ npublished = 0
    /\ configured = FALSE
    /\ gh = [w \in Workers |-> NoGh]

Init == Constructed(0..MaxWin)

(***************************************************************************)
(* collections.deque(maxlen=n).append(x): the oldest element is dropped    *)
(* when the deque is full.                                                 *)
(***************************************************************************)
\* A bounded queue that turns the new element away when it is full.
DequeAppend_DropsNewest(d, x, n) ==
    IF Len(d) >= n THEN d ELSE Append(d, x)

DequeAppend(d, x, n) ==
    IF Len(d) >= n THEN Append(Tail(d), x) ELSE Append(d, x)

\* One thread's step to statement p with its locals set to l.
Goto(t, p, l) ==
    /\ pc' = [pc EXCEPT ![t] = p]
    /\ loc' = [loc EXCEPT ![t] = l]

\* A counter of gh that runs while the stop signal is up.
Counted(n) == IF stop_event THEN n + 1 ELSE n

(***************************************************************************)
(* _apply_capture_settings, lines 165-178.  Run by the worker after a      *)
(* successful open (line 87) and by the capture_resolution setter (line    *)
(* 195).  cap.set(CAP_PROP_FPS, ...) changes nothing the program reads     *)
(* back and is part of the height step.                                    *)
(***************************************************************************)
\* Line 167.
ApplyReadTarget(t) ==
    /\ pc[t] = "a_cfg"
    /\ Goto(t, "a_setw", [loc[t] EXCEPT !.cfg = capture_resolution])
    /\ UNCHANGED <<progVars, histVars>>

\* Lines 168-169.
ApplySetWidth(t) ==
    /\ pc[t] = "a_setw"
    /\ cap' = IF loc[t].cfg[1] > 0 THEN DevSetWidth(cap, loc[t].cfg[1]) ELSE cap
    /\ Goto(t, "a_seth", loc[t])
    /\ UNCHANGED <<thread, stop_event, frame_buffer, buffer_size, buffer_lock,
                   frame_available, frame_times, times_maxlen, capture_resolution,
                   native_resolution, inference_resolution, heap, clock, histVars>>

\* Lines 170-173.
ApplySetHeight(t) ==
    /\ pc[t] = "a_seth"
    /\ cap' = IF loc[t].cfg[2] > 0 THEN DevSetHeight(cap, loc[t].cfg[2]) ELSE cap
    /\ Goto(t, "a_getw", loc[t])
    /\ UNCHANGED <<thread, stop_event, frame_buffer, buffer_size, buffer_lock,
                   frame_available, frame_times, times_maxlen, capture_resolution,
                   native_resolution, inference_resolution, heap, clock, histVars>>

\* Line 176.
ApplyGetWidth(t) ==
    /\ pc[t] = "a_getw"
    /\ Goto(t, "a_geth", [loc[t] EXCEPT !.got = <<DevGetWidth(cap), 0>>])
    /\ UNCHANGED <<progVars, histVars>>

\* Line 177.
ApplyGetHeight(t) ==
    /\ pc[t] = "a_geth"
    /\ Goto(t, "a_store", [loc[t] EXCEPT !.got = <<loc[t].got[1], DevGetHeight(cap)>>])
    /\ UNCHANGED <<progVars, histVars>>

\* Line 175: the assignment, then the return to line 89 (worker) or out of
\* the setter (caller).
ApplyStore(t) ==
    /\ pc[t] = "a_store"
    /\ native_resolution' = loc[t].got
    /\ configured' = cap.open
    /\ IF t \in Workers
       THEN Goto(t, "w_read", [loc[t] EXCEPT !.cfg = NoRes, !.got = NoRes])
       ELSE Goto(t, "idle", [loc[t] EXCEPT !.cfg = NoRes, !.got = NoRes])
    /\ UNCHANGED <<cap, thread, stop_event, frame_buffer, buffer_size, buffer_lock,
                   frame_available, frame_times, times_maxlen, capture_resolution,
                   inference_resolution, heap, clock,
                   nread, appended, nstamps, npublished, gh>>

(***************************************************************************)
(* _capture_loop, lines 70-104.                                            *)
(***************************************************************************)
\* The loop as it would be if it tested the stop signal only while the
\* handle is open.
WorkerLoopTest_OnlyWhenOpen(w) ==
    /\ pc[w] = "w_loop"
    /\ Goto(w, IF stop_event /\ cap.open THEN "w_final" ELSE "w_isopen", loc[w])
    /\ UNCHANGED <<progVars, histVars>>

\* Line 80: while not self._stop_event.is_set().
WorkerLoopTest(w) ==
    /\ pc[w] = "w_loop"
    /\ Goto(w, IF stop_event THEN "w_final" ELSE "w_isopen", loc[w])
    /\ UNCHANGED <<progVars, histVars>>

\* Line 82: if not self.cap.isOpened().
WorkerIsOpened(w) ==
    /\ pc[w] = "w_isopen"
    /\ Goto(w, IF cap.open THEN "w_read" ELSE "w_open", loc[w])
    /\ UNCHANGED <<progVars, histVars>>

\* Lines 83-84 and 87, the device opens: go on to _apply_capture_settings.
WorkerOpenOk(w) ==
    /\ pc[w] = "w_open"
    /\ cap' = DevOpened
    /\ configured' = FALSE
    /\ gh' = [gh EXCEPT ![w].fails = Attempted(@, TRUE)]
    /\ Goto(w, "a_cfg", loc[w])
    /\ UNCHANGED <<thread, stop_event, frame_buffer, buffer_size, buffer_lock,
                   frame_available, frame_times, times_maxlen, capture_resolution,
                   native_resolution, inference_resolution, heap, clock,
                   nread, appended, nstamps, npublished>>

\* The failed open as it would be with the continue of line 86 and no sleep.
WorkerOpenFail_NoSleep(w) ==
    /\ pc[w] = "w_open"
    /\ cap' = DevClosed
    /\ gh' = [gh EXCEPT ![w].fails = Attempted(@, FALSE)]
    /\ Goto(w, "w_loop", loc[w])
    /\ UNCHANGED <<thread, stop_event, frame_buffer, buffer_size, buffer_lock,
                   frame_available, frame_times, times_maxlen, capture_resolution,
                   native_resolution, inference_resolution, heap, clock,
                   nread, appended, nstamps, npublished, configured>>

\* Lines 83-85, the device does not open: sleep next.
WorkerOpenFail(w) ==
    /\ pc[w] = "w_open"
    /\ cap' = DevClosed
    /\ gh' = [gh EXCEPT ![w].fails = Attempted(@, FALSE)]
    /\ Goto(w, "w_sleep_open", loc[w])
    /\ UNCHANGED <<thread, stop_event, frame_buffer, buffer_size, buffer_lock,
                   frame_available, frame_times, times_maxlen, capture_resolution,
                   native_resolution, inference_resolution, heap, clock,
                   nread, appended, nstamps, npublished, configured>>

\* Lines 85-86 and 93-94: time.sleep(self.reconnect_backoff_s); continue.
WorkerSleep(w) ==
    /\ pc[w] \in {"w_sleep_open", "w_sleep_read"}
    /\ gh' = [gh EXCEPT ![w].fails = 0, ![w].sleeps = Counted(@)]
    /\ Goto(w, "w_loop", loc[w])
    /\ UNCHANGED <<progVars, nread, appended, nstamps, npublished, configured>>

\* Lines 89-90, the read yields a frame: a fresh array of the device's size.
WorkerReadOk(w) ==
    /\ pc[w] = "w_read"
    /\ cap.open
    /\ nread < MaxReads
    /\ nread' = nread + 1
    /\ heap' = [heap EXCEPT ![nread + 1] = [px |-> nread + 1, res |-> cap.res]]
    /\ gh' = [gh EXCEPT ![w].reads = Counted(@), ![w].fails = Attempted(@, TRUE)]
    /\ Goto(w, "w_append", [loc[w] EXCEPT !.frame = nread + 1])
    /\ UNCHANGED <<cap, thread, stop_event, frame_buffer, buffer_size, buffer_lock,
                   frame_available, frame_times, times_maxlen, capture_resolution,
                   native_resolution, inference_resolution, clock,
                   appended, nstamps, npublished, configured>>

\* The failed read as it would be if it ended the loop (a break at line 94).
WorkerReadFail_Exits(w) ==
    /\ pc[w] = "w_read"
    /\ gh' = [gh EXCEPT ![w].reads = Counted(@), ![w].fails = Attempted(@, FALSE)]
    /\ Goto(w, "w_final", loc[w])
    /\ UNCHANGED <<progVars, nread, appended, nstamps, npublished, configured>>

\* Lines 89-90, the read fails (as it always does on a handle that is not
\* open).
WorkerReadFail(w) ==
    /\ pc[w] = "w_read"
    /\ gh' = [gh EXCEPT ![w].reads = Counted(@), ![w].fails = Attempted(@, FALSE),
                         ![w].wedge = "wedged"]
    /\ Goto(w, "w_release", loc[w])
    /\ UNCHANGED <<progVars, nread, appended, nstamps, npublished, configured>>

\* The failed read as it would be without the release of line 92.
WorkerReleaseAfterFail_NoRelease(w) ==
    /\ pc[w] = "w_release"
    /\ Goto(w, "w_sleep_read", loc[w])
    /\ UNCHANGED <<progVars, histVars>>

\* Line 92: self.cap.release().
WorkerReleaseAfterFail(w) ==
    /\ pc[w] = "w_release"
    /\ cap' = DevClosed
    /\ gh' = [gh EXCEPT ![w].releases = Counted(@), ![w].wedge = "recovered"]
    /\ Goto(w, "w_sleep_read", loc[w])
    /\ UNCHANGED <<thread, stop_event, frame_buffer, buffer_size, buffer_lock,
                   frame_available, frame_times, times_maxlen, capture_resolution,
                   native_resolution, inference_resolution, heap, clock,
                   nread, appended, nstamps, npublished, configured>>

\* Lines 96-97: take the buffer lock and append the frame.
WorkerAppend(w) ==
    /\ pc[w] = "w_append"
    /\ buffer_lock = None
    /\ buffer_lock' = w
    /\ frame_buffer' = DequeAppend(frame_buffer, loc[w].frame, buffer_size)
    /\ appended' = Append(appended, heap[loc[w].frame].px)
    /\ Goto(w, "w_set", loc[w])
    /\ UNCHANGED <<cap, thread, stop_event, buffer_size,
                   frame_available, frame_times, times_maxlen, capture_resolution,
                   native_resolution, inference_resolution, heap, clock,
                   nread, nstamps, npublished, configured, gh>>

\* Line 98 as it would be if the loop then left out the timestamp once the
\* stop signal is set.
WorkerSetAvailable_ChecksStop(w) ==
    /\ pc[w] = "w_set"
    /\ frame_available' = TRUE
    /\ buffer_lock' = None
    /\ npublished' = npublished + 1
    /\ Goto(w, IF stop_event THEN "w_loop" ELSE "w_stamp", loc[w])
    /\ UNCHANGED <<cap, thread, stop_event, frame_buffer, buffer_size,
                   frame_times, times_maxlen, capture_resolution,
                   native_resolution, inference_resolution, heap, clock,
                   nread, appended, nstamps, configured, gh>>

\* Line 98: self._frame_available.set(), and the lock is given back.
WorkerSetAvailable(w) ==
    /\ pc[w] = "w_set"
    /\ frame_available' = TRUE
    /\ buffer_lock' = None
    /\ npublished' = npublished + 1
    /\ Goto(w, "w_stamp", loc[w])
    /\ UNCHANGED <<cap, thread, stop_event, frame_buffer, buffer_size,
                   frame_times, times_maxlen, capture_resolution,
                   native_resolution, inference_resolution, heap, clock,
                   nread, appended, nstamps, configured, gh>>

\* Lines 100-101: under the fps lock, append time.monotonic().
WorkerStamp(w) ==
    /\ pc[w] = "w_stamp"
    /\ frame_times' = DequeAppend(frame_times, clock, times_maxlen)
    /\ nstamps' = nstamps + 1
    /\ Goto(w, "w_loop", [loc[w] EXCEPT !.frame = None])
    /\ UNCHANGED <<cap, thread, stop_event, frame_buffer, buffer_size, buffer_lock,
                   frame_available, times_maxlen, capture_resolution,
                   native_resolution, inference_resolution, heap, clock,
                   nread, appended, npublished, configured, gh>>

\* The end of the thread as it would be without the release of line 104.
WorkerFinalRelease_NoRelease(w) ==
    /\ pc[w] = "w_final"
    /\ Goto(w, "dead", loc[w])
    /\ UNCHANGED <<progVars, histVars>>

\* Line 104: self.cap.release(), and the thread ends.
WorkerFinalRelease(w) ==
    /\ pc[w] = "w_final"
    /\ cap' = DevClosed
    /\ gh' = [gh EXCEPT ![w].releases = Counted(@)]
    /\ Goto(w, "dead", loc[w])
    /\ UNCHANGED <<thread, stop_event, frame_buffer, buffer_size, buffer_lock,
                   frame_available, frame_times, times_maxlen, capture_resolution,
                   native_resolution, inference_resolution, heap, clock,
                   nread, appended, nstamps, npublished, configured>>

WorkerStep(w) ==
    \/ WorkerLoopTest(w)
    \/ WorkerIsOpened(w)
    \/ WorkerOpenOk(w)
    \/ WorkerOpenFail(w)
    \/ WorkerSleep(w)
    \/ WorkerReadOk(w)
    \/ WorkerReadFail(w)
    \/ WorkerReleaseAfterFail(w)
    \/ WorkerAppend(w)
    \/ WorkerSetAvailable(w)
    \/ WorkerStamp(w)
    \/ WorkerFinalRelease(w)

(***************************************************************************)
(* Calls.  A caller in no call is "idle".  Entering a call, it lets go of  *)
(* the array the call before returned.                                     *)
(***************************************************************************)
Entered(op) == [NoLoc EXCEPT !.op = op]
Dropped(c) == [heap EXCEPT ![CopyRef(c)] = NoObj]

\* The return of value v.
Return(c, l, v) == Goto(c, "idle", [Entered(l.op) EXCEPT !.ret = v])

\* An exception leaves the call.
Raise(c) == Goto(c, "raised", loc[c])

(***************************************************************************)
(* start, lines 54-68.                                                     *)
(***************************************************************************)
\* start() as it would be without the check of lines 63-64.
StartCheck_Unchecked(c) ==
    /\ pc[c] = "idle"
    /\ Goto(c, "s_clear", Entered("start"))
    /\ heap' = Dropped(c)
    /\ UNCHANGED <<cap, thread, stop_event, frame_buffer, buffer_size, buffer_lock,
                   frame_available, frame_times, times_maxlen, capture_resolution,
                   native_resolution, inference_resolution, clock, histVars>>

\* Lines 63-64: if self._thread and self._thread.is_alive(): return.
StartCheck(c) ==
    /\ pc[c] = "idle"
    /\ IF thread # None /\ IsAlive(thread)
       THEN Return(c, Entered("start"), None)
       ELSE Goto(c, "s_clear", Entered("start"))
    /\ heap' = Dropped(c)
    /\ UNCHANGED <<cap, thread, stop_event, frame_buffer, buffer_size, buffer_lock,
                   frame_available, frame_times, times_maxlen, capture_resolution,
                   native_resolution, inference_resolution, clock, histVars>>

\* start() as it would be if it also emptied the frame buffer at line 66.
StartClear_EmptiesBuffer(c) ==
    /\ pc[c] = "s_clear"
    /\ stop_event' = FALSE
    /\ frame_buffer' = <<>>
    /\ Goto(c, "s_create", loc[c])
    /\ UNCHANGED <<cap, thread, buffer_size, buffer_lock,
                   frame_available, frame_times, times_maxlen, capture_resolution,
                   native_resolution, inference_resolution, heap, clock, histVars>>

\* Line 66: self._stop_event.clear().
StartClear(c) ==
    /\ pc[c] = "s_clear"
    /\ stop_event' = FALSE
    /\ Goto(c, "s_create", loc[c])
    /\ UNCHANGED <<cap, thread, frame_buffer, buffer_size, buffer_lock,
                   frame_available, frame_times, times_maxlen, capture_resolution,
                   native_resolution, inference_resolution, heap, clock, histVars>>

\* Thread slots a new Thread object can take: never used, or finished and
\* referenced by nothing.
FreeSlots ==
    {w \in Workers : /\ pc[w] \in {"free", "dead"}
                     /\ thread # w
                     /\ \A c \in Callers : loc[c].join # w}

\* Line 67: self._thread = threading.Thread(target=self._capture_loop).
StartCreate(c) ==
    /\ pc[c] = "s_create"
    /\ FreeSlots # {}
    /\ LET w == CHOOSE x \in FreeSlots : \A y \in FreeSlots : x <= y
       IN /\ thread' = w
          /\ pc' = [pc EXCEPT ![c] = "s_launch", ![w] = "new"]
          /\ loc' = [loc EXCEPT ![w] = NoLoc]
          /\ gh' = [gh EXCEPT ![w] = NoGh]
    /\ UNCHANGED <<cap, stop_event, frame_buffer, buffer_size, buffer_lock,
                   frame_available, frame_times, times_maxlen, capture_resolution,
                   native_resolution, inference_resolution, heap, clock,
                   nread, appended, nstamps, npublished, configured>>

\* Line 68: self._thread.start().  Raises when _thread is None by now
\* (AttributeError) or was started already (RuntimeError).
StartLaunch(c) ==
    /\ pc[c] = "s_launch"
    /\ IF thread # None /\ pc[thread] = "new"
       THEN /\ pc' = [pc EXCEPT ![c] = "idle", ![thread] = "w_loop"]
            /\ loc' = [loc EXCEPT ![c].spawned = thread]
       ELSE Raise(c)
    /\ UNCHANGED <<progVars, histVars>>

(***************************************************************************)
(* stop, lines 147-163.                                                    *)
(***************************************************************************)
\* Line 157: if self._thread and self._thread.is_alive().
StopCheck(c) ==
    /\ pc[c] = "idle"
    /\ Goto(c, IF thread # None /\ IsAlive(thread) THEN "t_set" ELSE "t_release",
            Entered("stop"))
    /\ heap' = Dropped(c)
    /\ UNCHANGED <<cap, thread, stop_event, frame_buffer, buffer_size, buffer_lock,
                   frame_available, frame_times, times_maxlen, capture_resolution,
                   native_resolution, inference_resolution, clock, histVars>>

\* Line 158: self._stop_event.set().
StopSet(c) ==
    /\ pc[c] = "t_set"
    /\ stop_event' = TRUE
    /\ gh' = IF stop_event THEN gh
             ELSE [w \in Workers |-> [gh[w] EXCEPT !.reads = 0, !.sleeps = 0,
                                                   !.releases = 0]]
    /\ Goto(c, "t_join", loc[c])
    /\ UNCHANGED <<cap, thread, frame_buffer, buffer_size, buffer_lock,
                   frame_available, frame_times, times_maxlen, capture_resolution,
                   native_resolution, inference_resolution, heap, clock,
                   nread, appended, nstamps, npublished, configured>>

\* Line 159, self._thread.join() is entered: raises when _thread is None by
\* now (AttributeError) or is not started (RuntimeError).
StopJoin(c) ==
    /\ pc[c] = "t_join"
    /\ IF thread = None \/ pc[thread] = "new"
       THEN Raise(c)
       ELSE Goto(c, "t_wait", [loc[c] EXCEPT !.join = thread])
    /\ UNCHANGED <<progVars, histVars>>

\* Line 159, join() returns: the thread has ended.
StopWait(c) ==
    /\ pc[c] = "t_wait"
    /\ pc[loc[c].join] = "dead"
    /\ Goto(c, "t_clear", loc[c])
    /\ UNCHANGED <<progVars, histVars>>

\* Line 160 as it would be if stop() also cleared the frame-available flag.
StopClearThread_ClearsFlag(c) ==
    /\ pc[c] = "t_clear"
    /\ thread' = None
    /\ frame_available' = FALSE
    /\ Return(c, loc[c], None)
    /\ gh' = [gh EXCEPT ![loc[c].join] = NoGh]
    /\ UNCHANGED <<cap, stop_event, frame_buffer, buffer_size, buffer_lock,
                   frame_times, times_maxlen, capture_resolution,
                   native_resolution, inference_resolution, heap, clock,
                   nread, appended, nstamps, npublished, configured>>

\* Line 160: self._thread = None.
StopClearThread(c) ==
    /\ pc[c] = "t_clear"
    /\ thread' = None
    /\ Return(c, loc[c], None)
    /\ gh' = [gh EXCEPT ![loc[c].join] = NoGh]
    /\ UNCHANGED <<cap, stop_event, frame_buffer, buffer_size, buffer_lock,
                   frame_available, frame_times, times_maxlen, capture_resolution,
                   native_resolution, inference_resolution, heap, clock,
                   nread, appended, nstamps, npublished, configured>>

\* stop() as it would be without the release of line 163.
StopRelease_Skipped(c) ==
    /\ pc[c] = "t_release"
    /\ Return(c, loc[c], None)
    /\ UNCHANGED <<progVars, histVars>>

\* Line 163: self.cap.release().
StopRelease(c) ==
    /\ pc[c] = "t_release"
    /\ cap' = DevClosed
    /\ Return(c, loc[c], None)
    /\ UNCHANGED <<thread, stop_event, frame_buffer, buffer_size, buffer_lock,
                   frame_available, frame_times, times_maxlen, capture_resolution,
                   native_resolution, inference_resolution, heap, clock, histVars>>

(***************************************************************************)
(* get_frame, lines 106-121, called by the user or from line 133 of        *)
(* get_frame_for_inference, whose lines 134-135 pass a None on.            *)
(***************************************************************************)
\* get_frame() as it would be without the check of lines 116-117.
GetFrameEnter_Unchecked(c, op) ==
    /\ pc[c] = "idle"
    /\ Goto(c, "g_read", Entered(op))
    /\ heap' = Dropped(c)
    /\ UNCHANGED <<cap, thread, stop_event, frame_buffer, buffer_size, buffer_lock,
                   frame_available, frame_times, times_maxlen, capture_resolution,
                   native_resolution, inference_resolution, clock, histVars>>

\* Lines 116-117: if not self._frame_available.is_set(): return None.
GetFrameEnter(c, op) ==
    /\ pc[c] = "idle"
    /\ IF frame_available
       THEN Goto(c, "g_read", Entered(op))
       ELSE Return(c, Entered(op), None)
    /\ heap' = Dropped(c)
    /\ UNCHANGED <<cap, thread, stop_event, frame_buffer, buffer_size, buffer_lock,
                   frame_available, frame_times, times_maxlen, capture_resolution,
                   native_resolution, inference_resolution, clock, histVars>>

\* get_frame() called by the user.
GetFrameCheck(c) == GetFrameEnter(c, "get_frame")

\* The array latest.copy() yields from the array at reference r.
CopyOf(r) == heap[r]

\* Lines 119-121 as they would be if line 121 returned latest itself.
GetFrameRead_NoCopy(c) ==
    /\ pc[c] = "g_read"
    /\ buffer_lock = None
    /\ IF frame_buffer = <<>>
       THEN Raise(c)
       ELSE IF loc[c].op = "get_frame"
            THEN Return(c, loc[c], Last(frame_buffer))
            ELSE Goto(c, "i_target", [loc[c] EXCEPT !.frame = Last(frame_buffer)])
    /\ UNCHANGED <<progVars, histVars>>

\* Lines 119-121: under the buffer lock, copy self._frame_buffer[-1] into a
\* fresh array.  Indexing an empty deque raises IndexError.
GetFrameRead(c) ==
    /\ pc[c] = "g_read"
    /\ buffer_lock = None
    /\ IF frame_buffer = <<>>
       THEN /\ Raise(c)
            /\ UNCHANGED heap
       ELSE /\ heap' = [heap EXCEPT ![CopyRef(c)] = CopyOf(Last(frame_buffer))]
            /\ IF loc[c].op = "get_frame"
               THEN Return(c, loc[c], CopyRef(c))
               ELSE Goto(c, "i_target", [loc[c] EXCEPT !.frame = CopyRef(c)])
    /\ UNCHANGED <<cap, thread, stop_event, frame_buffer, buffer_size, buffer_lock,
                   frame_available, frame_times, times_maxlen, capture_resolution,
                   native_resolution, inference_resolution, clock, histVars>>

\* The caller writes into the array get_frame() returned to it (the array of
\* line 121, now the caller's).
MutateFrame(c) ==
    /\ pc[c] = "idle"
    /\ loc[c].op = "get_frame"
    /\ loc[c].ret # None
    /\ heap[loc[c].ret].px > 0
    /\ heap' = [heap EXCEPT ![loc[c].ret].px = -1]
    /\ UNCHANGED <<cap, thread, stop_event, frame_buffer, buffer_size, buffer_lock,
                   frame_available, frame_times, times_maxlen, capture_resolution,
                   native_resolution, inference_resolution, clock, pc, loc, histVars>>

(***************************************************************************)
(* get_frame_for_inference, lines 123-145.                                 *)
(***************************************************************************)
\* Lines 133-135: frame = self.get_frame(), and its None is returned.
InferenceGetFrame(c) == GetFrameEnter(c, "get_frame_for_inference")

\* Lines 137-139: a target with a non-positive dimension returns the frame.
InferenceTarget(c) ==
    /\ pc[c] = "i_target"
    /\ LET t == inference_resolution
       IN IF t[1] <= 0 \/ t[2] <= 0
          THEN Return(c, loc[c], loc[c].frame)
          ELSE Goto(c, "i_native", [loc[c] EXCEPT !.target = t])
    /\ UNCHANGED <<progVars, histVars>>

\* The test of line 142 as it would be without its second operand.
KeepsSize_NativeKnown(target, native) == target = native

\* Lines 142-143: whether the frame is returned as it is.
KeepsSize(target, native) == target = native \/ (native[1] = 0 /\ native[2] = 0)

\* cv2.resize(frame, (w, h)): a new array of that size with the frame's image.
Resize(f, target) == [px |-> f.px, res |-> target]

\* Lines 141-145.
InferenceNative(c) ==
    /\ pc[c] = "i_native"
    /\ heap' = IF KeepsSize(loc[c].target, native_resolution) THEN heap
               ELSE [heap EXCEPT ![loc[c].frame] = Resize(@, loc[c].target)]
    /\ Return(c, loc[c], loc[c].frame)
    /\ UNCHANGED <<cap, thread, stop_event, frame_buffer, buffer_size, buffer_lock,
                   frame_available, frame_times, times_maxlen, capture_resolution,
                   native_resolution, inference_resolution, clock, histVars>>

(***************************************************************************)
(* fps_actual, lines 206-215.  The rate is kept as the fraction            *)
(* <<numerator, denominator>>; 0.0 is <<0, 1>>.                            *)
(***************************************************************************)
\* The rate as it would be without the test of lines 213-214.
FpsOf_Unguarded(times) ==
    IF Len(times) < 2 THEN <<0, 1>>
    ELSE <<Len(times) - 1, Last(times) - times[1]>>

FpsOf(times) ==
    IF Len(times) < 2 THEN <<0, 1>>
    ELSE LET duration == Last(times) - times[1]
         IN IF duration <= 0 THEN <<0, 1>> ELSE <<Len(times) - 1, duration>>

\* Lines 209-215, under the fps lock.
FpsActual(c) ==
    /\ pc[c] = "idle"
    /\ Return(c, Entered("fps_actual"), FpsOf(frame_times))
    /\ heap' = Dropped(c)
    /\ UNCHANGED <<cap, thread, stop_event, frame_buffer, buffer_size, buffer_lock,
                   frame_available, frame_times, times_maxlen, capture_resolution,
                   native_resolution, inference_resolution, clock, histVars>>

(***************************************************************************)
(* The property setters, lines 190-204.  The getters (lines 180-188 and    *)
(* 197-200) return a field and change nothing.                             *)
(***************************************************************************)
\* Line 193: self._capture_resolution = resolution.
SetCaptureStore(c) ==
    /\ pc[c] = "idle"
    /\ capture_resolution' \in CaptureChoices
    /\ Goto(c, "c_isopen", Entered("capture_resolution"))
    /\ heap' = Dropped(c)
    /\ UNCHANGED <<cap, thread, stop_event, frame_buffer, buffer_size, buffer_lock,
                   frame_available, frame_times, times_maxlen,
                   native_resolution, inference_resolution, clock, histVars>>

\* Lines 194-195: if self.cap.isOpened(): self._apply_capture_settings().
SetCaptureIsOpened(c) ==
    /\ pc[c] = "c_isopen"
    /\ IF cap.open THEN Goto(c, "a_cfg", loc[c]) ELSE Return(c, loc[c], None)
    /\ UNCHANGED <<progVars, histVars>>

\* Line 204: self._inference_resolution = resolution.
SetInferenceResolution(c) ==
    /\ pc[c] = "idle"
    /\ inference_resolution' \in InferenceChoices
    /\ Return(c, Entered("inference_resolution"), None)
    /\ heap' = Dropped(c)
    /\ UNCHANGED <<cap, thread, stop_event, frame_buffer, buffer_size, buffer_lock,
                   frame_available, frame_times, times_maxlen, capture_resolution,
                   native_resolution, clock, histVars>>

(***************************************************************************)
(* time.monotonic() moves on.                                              *)
(***************************************************************************)
Tick ==
    /\ clock < MaxClock
    /\ clock' = clock + 1
    /\ UNCHANGED <<cap, thread, stop_event, frame_buffer, buffer_size, buffer_lock,
                   frame_available, frame_times, times_maxlen, capture_resolution,
                   native_resolution, inference_resolution, heap, pc, loc, histVars>>

(***************************************************************************)
(* Specifications.                                                         *)
(***************************************************************************)
\* A statement of start or stop.
LifecycleStep(c) ==
    \/ StartCheck(c)
    \/ StartClear(c)
    \/ StartCreate(c)
    \/ StartLaunch(c)
    \/ StopCheck(c)
    \/ StopSet(c)
    \/ StopJoin(c)
    \/ StopWait(c)
    \/ StopClearThread(c)
    \/ StopRelease(c)

\* A statement of get_frame.
GetFrameStep(c) ==
    \/ GetFrameCheck(c)
    \/ GetFrameRead(c)

\* A statement of get_frame_for_inference or of the inference_resolution
\* setter.
InferenceStep(c) ==
    \/ InferenceGetFrame(c)
    \/ GetFrameRead(c)
    \/ InferenceTarget(c)
    \/ InferenceNative(c)
    \/ SetInferenceResolution(c)

\* A statement of the capture_resolution setter.
CaptureStep(c) ==
    \/ SetCaptureStore(c)
    \/ SetCaptureIsOpened(c)

\* A statement of _apply_capture_settings, by whichever thread runs it.
ApplyStep(t) ==
    \/ ApplyReadTarget(t)
    \/ ApplySetWidth(t)
    \/ ApplySetHeight(t)
    \/ ApplyGetWidth(t)
    \/ ApplyGetHeight(t)
    \/ ApplyStore(t)

\* One caller thread starts and stops the capture; it and a second caller
\* read frames while the worker runs.
Next ==
    \/ LifecycleStep(Main)
    \/ \E c \in Callers : GetFrameStep(c)
    \/ \E w \in Workers : ApplyStep(w)
    \/ \E w \in Workers : WorkerStep(w)

Spec == Init /\ [][Next]_vars

\* A caller inside start() or stop() runs on.
Running(c) ==
    \/ StartClear(c)
    \/ StartCreate(c)
    \/ StartLaunch(c)
    \/ StopSet(c)
    \/ StopJoin(c)
    \/ StopWait(c)
    \/ StopClearThread(c)
    \/ StopRelease(c)

\* The same, with every started thread running on.
SpecFair ==
    /\ Init
    /\ [][Next]_vars
    /\ \A w \in Workers : WF_vars(WorkerStep(w) \/ ApplyStep(w))
    /\ WF_vars(Running(Main))

\* One caller thread starts and stops the capture, sets the inference
\* resolution and reads inference frames while the worker runs.
NextInference ==
    \/ LifecycleStep(Main)
    \/ InferenceStep(Main)
    \/ \E w \in Workers : ApplyStep(w)
    \/ \E w \in Workers : WorkerStep(w)

SpecInference == Init /\ [][NextInference]_vars

\* One caller thread starts and stops the capture and sets the capture
\* resolution while the worker runs.
NextCapture ==
    \/ LifecycleStep(Main)
    \/ CaptureStep(Main)
    \/ \E t \in Workers \cup {Main} : ApplyStep(t)
    \/ \E w \in Workers : WorkerStep(w)

SpecCapture == Init /\ [][NextCapture]_vars

\* One caller thread starts and stops the capture, reads frames and writes
\* into them; a second one reads frames and inference frames meanwhile.
NextMutate ==
    \/ LifecycleStep(Main)
    \/ GetFrameStep(Main)
    \/ MutateFrame(Main)
    \/ GetFrameStep(Other)
    \/ InferenceStep(Other)
    \/ \E w \in Workers : ApplyStep(w)
    \/ \E w \in Workers : WorkerStep(w)

SpecMutate == Init /\ [][NextMutate]_vars

\* One caller thread starts and stops the capture, a second one reads
\* fps_actual, and the clock moves on.
NextFps ==
    \/ LifecycleStep(Main)
    \/ FpsActual(Other)
    \/ Tick
    \/ \E w \in Workers : ApplyStep(w)
    \/ \E w \in Workers : WorkerStep(w)

InitFps == Constructed(0..MaxFpsWin)

SpecFps == InitFps /\ [][NextFps]_vars

\* A statement of _capture_loop while no camera answers: every open and
\* every read fails.
WorkerStepNoCamera(w) ==
    \/ WorkerLoopTest(w)
    \/ WorkerIsOpened(w)
    \/ WorkerOpenFail(w)
    \/ WorkerSleep(w)
    \/ WorkerReadFail(w)
    \/ WorkerReleaseAfterFail(w)
    \/ WorkerFinalRelease(w)

\* Two caller threads start and stop the capture; no camera answers.
NextLifecycle ==
    \/ \E c \in Callers : LifecycleStep(c)
    \/ \E w \in Workers : WorkerStepNoCamera(w)

SpecLifecycle == Init /\ [][NextLifecycle]_vars

(***************************************************************************)
(* Properties.                                                             *)
(***************************************************************************)
\* The fields of the object other than the arrays handed to callers.
objVars == <<cap, thread, stop_event, frame_buffer, buffer_size, buffer_lock,
             frame_available, frame_times, times_maxlen, capture_resolution,
             native_resolution, inference_resolution>>
workerPc == [w \in Workers |-> pc[w]]

\* Caller c is in no call, and the call it made last was op.
Returned(c, op) == pc[c] = "idle" /\ loc[c].op = op

(* C1: with one thread calling start() and stop() one after another, after a
   start() returns exactly one worker is alive, it is the one _thread names
   and the stop signal is clear; after a stop() returns no worker is alive;
   and a start() that finds a live worker creates no thread and changes no
   field of the object. *)
C1_StartStopWorkers ==
    /\ [](/\ Cardinality(Alive) <= 1
          /\ Returned(Main, "start") =>
                Cardinality(Alive) = 1 /\ thread \in Alive /\ ~stop_event
          /\ Returned(Main, "stop") => Alive = {})
    /\ [][(StartCheck(Main) /\ thread # None /\ IsAlive(thread)) =>
             /\ UNCHANGED <<objVars, workerPc>>
             /\ Returned(Main, "start")' /\ loc'[Main].spawned = None]_vars

\* start() has returned without launching a thread: a worker was alive.
C1_Witness ==
    /\ Returned(Main, "start")
    /\ loc[Main].spawned = None
    /\ Cardinality(Alive) = 1
    /\ nread > 0

(* C2: whenever stop() has returned, the device handle is closed, whether
   stop() joined a running worker or found none (a second stop() in a row, a
   stop() before any start() on the handle the constructor opened). *)
C2_StopReleasesHandle == Returned(Main, "stop") => ~cap.open

\* stop() has returned after joining a worker that had read frames.
C2_Witness ==
    /\ Returned(Main, "stop")
    /\ \E w \in Workers : pc[w] = "dead"
    /\ nread > 0

(* C3: once stop() has raised the stop signal, the worker makes at most one
   more device read and at most one more backoff sleep, and then exits:
   stop() always returns, whatever the device does. *)
C3_StopTerminates ==
    /\ [](\A w \in Workers :
             (stop_event /\ IsAlive(w)) => gh[w].reads <= 1 /\ gh[w].sleeps <= 1)
    /\ (pc[Main] \in {"t_set", "t_join", "t_wait", "t_clear"}) ~> Returned(Main, "stop")

\* join() has returned for a worker that read once and slept once after the
\* stop signal was raised.
C3_Witness ==
    /\ pc[Main] = "t_clear"
    /\ gh[loc[Main].join].reads = 1
    /\ gh[loc[Main].join].sleeps = 1

\* get_frame() returns None out of its first statement.
ReturnsNone(c) == Returned(c, "get_frame")' /\ loc'[c].ret = None

(* C4, as claimed: get_frame() returns None in every state in which no device
   read has yet succeeded, and a frame in every state reached after at least
   one successful read. *)
C4_Original ==
    [][\A c \in Callers : GetFrameCheck(c) => (ReturnsNone(c) <=> nread = 0)]_vars

(* C4, amended: get_frame() returns None in every state in which no device
   read has yet succeeded, and a frame in every state reached after the worker
   has published at least one frame (appended it and set the frame-available
   flag, lines 96-98); from a first successful read until that frame is
   published it still returns None.  It never raises, and the buffer lock it
   waits for is never held across a device call. *)
C4_GetFrame ==
    /\ [](/\ \A c \in Callers : pc[c] # "raised"
          /\ buffer_lock # None => buffer_lock \in Workers /\ pc[buffer_lock] = "w_set")
    /\ [][\A c \in Callers :
             /\ (GetFrameCheck(c) /\ nread = 0) => ReturnsNone(c)
             /\ (GetFrameCheck(c) /\ npublished > 0) => pc'[c] = "g_read"
             /\ (GetFrameCheck(c) /\ npublished = 0) => ReturnsNone(c)
             /\ GetFrameRead(c) =>
                   /\ Returned(c, "get_frame")'
                   /\ loc'[c].ret = CopyRef(c)
                   /\ heap'[CopyRef(c)].px \in 1..nread]_vars

\* One get_frame() returned None after a read had succeeded, a later one
\* returned a frame.
C4_Witness ==
    /\ Returned(Main, "get_frame") /\ loc[Main].ret = None
    /\ Returned(Other, "get_frame") /\ loc[Other].ret = CopyRef(Other)
    /\ heap[CopyRef(Other)].px = 1

\* The images of the frames in the buffer, oldest first.
BufferImages == [i \in 1..Len(frame_buffer) |-> heap[frame_buffer[i]].px]

(* C5, as claimed: for every number k of successful reads the buffer holds
   exactly the last min(k, buffer_size) frames read, in arrival order. *)
C5_Original == BufferImages = LastN([i \in 1..nread |-> i], buffer_size)

(* C5, amended: for every buffer_size n >= 1 and every number k of frames
   appended (every successful read but the one, if any, that a worker has
   read and not yet appended), the buffer holds exactly the last min(k, n)
   frames appended, in arrival order, its length never exceeds n, and
   get_frame() returns content equal to the last frame appended. *)
C5_BufferHoldsLastFrames ==
    /\ [](/\ Len(frame_buffer) <= buffer_size
          /\ Len(frame_buffer) = Min(Len(appended), buffer_size)
          /\ BufferImages = LastN(appended, buffer_size)
          /\ appended = [i \in 1..Len(appended) |-> i]
          /\ nread - Len(appended) = Cardinality({w \in Workers : pc[w] = "w_append"}))
    /\ [][\A c \in Callers :
             GetFrameRead(c) => heap'[CopyRef(c)].px = Last(appended)]_vars

\* More frames were appended than the buffer holds, and get_frame() returned
\* the last of them.
C5_Witness ==
    /\ buffer_size > 1
    /\ Len(appended) > buffer_size
    /\ Returned(Main, "get_frame")
    /\ loc[Main].ret = CopyRef(Main)
    /\ heap[CopyRef(Main)].px = Last(appended)

(* C6: the worker never makes an open or read attempt after a failed one
   without a backoff sleep in between. *)
C6_BackoffAfterFailure == \A w \in Workers : gh[w].fails <= 1

\* A read failed, and after the sleep the open failed: the worker sleeps again.
C6_Witness ==
    \E w \in Workers :
       pc[w] = "w_sleep_open" /\ gh[w].wedge = "recovered" /\ gh[w].fails = 1

(* C7: after a read failure the worker releases the handle before anything
   else, so before its next open attempt; it opens only a closed handle and
   reads only an open one; and once a later open and read have succeeded the
   frame is appended to the buffer. *)
C7_ReleaseAndResume ==
    /\ [](\A w \in Workers :
             /\ gh[w].wedge = "wedged" => pc[w] = "w_release"
             /\ pc[w] = "w_read" => cap.open)
    /\ [][\A w \in Workers : (WorkerOpenOk(w) \/ WorkerOpenFail(w)) => ~cap.open]_vars
    /\ \A w \in Workers : \A k \in 1..MaxReads :
          (pc[w] = "w_append" /\ nread = k) ~> (Len(appended) >= k)

\* A worker that had a read fail, and released the handle, appended a frame.
C7_Witness ==
    \E w \in Workers : pc[w] = "w_set" /\ gh[w].wedge = "recovered"

(* C8: every frame appended to the buffer was read from a handle on which
   _apply_capture_settings had run since that handle was last opened, and
   native_resolution then holds the width and height read back from the
   device, not (0, 0). *)
C8_SettingsAppliedBeforeRead ==
    \A w \in Workers :
       pc[w] = "w_append" =>
          /\ configured
          /\ native_resolution # NoRes
          /\ native_resolution = heap[loc[w].frame].res

\* get_frame_for_inference() returns None out of its first statement.
InferenceReturnsNone(c) ==
    Returned(c, "get_frame_for_inference")' /\ loc'[c].ret = None

\* get_frame_for_inference() returns the copy get_frame() gave it, as it is.
ReturnsUnresized(c) ==
    /\ Returned(c, "get_frame_for_inference")'
    /\ loc'[c].ret = loc[c].frame
    /\ heap'[loc[c].frame] = heap[loc[c].frame]

\* get_frame_for_inference() returns that image at the size asked for.
ReturnsResized(c, target) ==
    /\ Returned(c, "get_frame_for_inference")'
    /\ loc'[c].ret = loc[c].frame
    /\ heap'[loc[c].frame].px = heap[loc[c].frame].px
    /\ heap'[loc[c].frame].res = target

\* get_frame_for_inference() returns None exactly when get_frame() does.
NoneAsGetFrame ==
    /\ [](\A c \in Callers :
             ENABLED (GetFrameCheck(c) /\ ReturnsNone(c))
                <=> ENABLED (InferenceGetFrame(c) /\ InferenceReturnsNone(c)))
    /\ [][\A c \in Callers :
             /\ InferenceGetFrame(c) => (InferenceReturnsNone(c) <=> ~frame_available)
             /\ (GetFrameRead(c) /\ loc[c].op = "get_frame_for_inference") =>
                   pc'[c] = "i_target" /\ heap'[loc'[c].frame].px = Last(appended)]_vars

(* C9, as claimed: when a frame is available, get_frame_for_inference()
   returns it unresized if inference_resolution is (0,0) or equals
   native_resolution, and at exactly inference_resolution for any other
   inference_resolution with both dimensions positive; it returns None
   exactly when get_frame() does. *)
C9_Original ==
    /\ NoneAsGetFrame
    /\ [][\A c \in Callers :
             /\ (InferenceTarget(c) /\ inference_resolution = <<0, 0>>) =>
                   ReturnsUnresized(c)
             /\ (InferenceNative(c) /\ loc[c].target = native_resolution) =>
                   ReturnsUnresized(c)
             /\ (InferenceNative(c) /\ loc[c].target # native_resolution) =>
                   ReturnsResized(c, loc[c].target)]_vars

(* C9, amended: when a frame is available, get_frame_for_inference() returns
   it unresized if inference_resolution is (0,0), or equals
   native_resolution, or native_resolution is still (0,0) (no capture
   settings have been read back yet); for any other inference_resolution
   with both dimensions positive it returns a frame of exactly that size; it
   returns None exactly when get_frame() does. *)
C9_InferenceFrame ==
    /\ NoneAsGetFrame
    /\ [][\A c \in Callers :
             /\ (InferenceTarget(c) /\ inference_resolution = <<0, 0>>) =>
                   ReturnsUnresized(c)
             /\ (InferenceTarget(c) /\ inference_resolution # <<0, 0>>) =>
                   pc'[c] = "i_native" /\ loc'[c].target = inference_resolution
             /\ (InferenceNative(c) /\ loc[c].target = native_resolution) =>
                   ReturnsUnresized(c)
             /\ (InferenceNative(c) /\ native_resolution = <<0, 0>>) =>
                   ReturnsUnresized(c)
             /\ (InferenceNative(c) /\ loc[c].target # native_resolution
                                    /\ native_resolution # <<0, 0>>) =>
                   ReturnsResized(c, loc[c].target)]_vars

\* A frame read at the device's default size was returned at the inference
\* size, native_resolution being known.
C9_Witness ==
    /\ Returned(Main, "get_frame_for_inference")
    /\ loc[Main].ret = CopyRef(Main)
    /\ native_resolution = DefaultRes
    /\ frame_buffer # <<>>
    /\ heap[Last(frame_buffer)] = [px |-> heap[CopyRef(Main)].px, res |-> DefaultRes]
    /\ heap[CopyRef(Main)].res = <<2, 2>>

\* A caller thread performs isOpened, set, get or release on the handle.
CallerDeviceOp(c) ==
    \/ SetCaptureIsOpened(c)
    \/ ApplySetWidth(c) /\ loc[c].cfg[1] > 0
    \/ ApplySetHeight(c) /\ loc[c].cfg[2] > 0
    \/ ApplyGetWidth(c)
    \/ ApplyGetHeight(c)
    \/ StopRelease(c)

(* C10: while a worker thread is alive, no method running on a caller thread
   performs isOpened, open, set, get, read or release on the device
   handle. *)
C10_HandleOnlyByWorker ==
    [][\A c \in Callers : CallerDeviceOp(c) => Alive = {}]_vars

(* C11: a worker leaves its loop only at the loop test of line 80 and only
   with the stop signal set; no open failure or read failure ends it, and a
   started worker ends only inside a stop() call that has raised the
   signal. *)
C11_ExitsOnlyOnStop ==
    /\ [](\A w \in Workers : pc[w] = "w_final" => stop_event)
    /\ [][\A w \in Workers :
             /\ (pc[w] # "w_final" /\ pc'[w] = "w_final") =>
                   pc[w] = "w_loop" /\ stop_event
             /\ (IsAlive(w) /\ ~IsAlive(w)') =>
                   /\ pc[w] = "w_final"
                   /\ stop_event
                   /\ pc[Main] \in {"t_join", "t_wait"}]_vars

\* A worker that met a read failure while the signal was clear leaves the
\* loop once stop() has raised the signal.
C11_Witness ==
    \E w \in Workers :
       pc[w] = "w_final" /\ gh[w].wedge = "recovered" /\ stop_event /\ nread > 0

\* The array a caller holds: the one returned to it, or the one
\* get_frame_for_inference() is working on.
Held(c) == IF pc[c] \in {"i_target", "i_native"} THEN loc[c].frame ELSE loc[c].ret

\* The references in the frame buffer.
Buffered == {frame_buffer[i] : i \in 1..Len(frame_buffer)}

(* C12: the array get_frame() returns is no array of the buffer and no array
   another caller holds, so writing into it changes neither the contents of
   the frame buffer nor what any later get_frame() or
   get_frame_for_inference() returns: those stay images that were read from
   the device. *)
C12_IndependentCopy ==
    /\ [](/\ BufferImages = LastN(appended, buffer_size)
          /\ \A c \in Callers :
                (pc[c] \in {"idle", "i_target", "i_native"} /\ Held(c) # None) =>
                   /\ Held(c) \notin Buffered
                   /\ \A d \in Callers \ {c} : Held(d) # Held(c)
          /\ (pc[Other] \in {"idle", "i_target", "i_native"} /\ Held(Other) # None) =>
                heap[Held(Other)].px \in 1..nread)
    /\ [][/\ \A c \in Callers :
                MutateFrame(c) =>
                   /\ BufferImages' = BufferImages
                   /\ \A d \in Callers \ {c} :
                         Held(d) # None => heap'[Held(d)] = heap[Held(d)]
          /\ \A c \in Callers :
                GetFrameRead(c) => heap'[CopyRef(c)].px = Last(appended)
          /\ ((InferenceTarget(Other) \/ InferenceNative(Other))
                 /\ Returned(Other, "get_frame_for_inference")') =>
                heap'[loc'[Other].ret].px = heap[loc[Other].frame].px]_vars

\* A caller has written into the frame it was given, and a get_frame() and a
\* get_frame_for_inference() of another caller returned the last image read.
C12_Witness ==
    /\ Returned(Main, "get_frame")
    /\ loc[Main].ret # None
    /\ heap[loc[Main].ret].px = -1
    /\ Returned(Other, "get_frame_for_inference")
    /\ loc[Other].ret # None
    /\ heap[loc[Other].ret].px = Last(appended)
    /\ Len(appended) > 1

(* C13: fps_actual returns 0 whenever the timestamp window holds fewer than
   two samples or newest minus oldest is <= 0, and otherwise
   (count - 1) / (newest - oldest); timestamps 0, 1, 2 give 1.  The window
   holds the at most max(2, fps_window) most recent timestamps.  The result
   is never negative and its divisor is never zero. *)
C13_FpsActual ==
    /\ [](/\ times_maxlen >= 2
          /\ Len(frame_times) <= times_maxlen
          /\ \A i \in 1..Len(frame_times) : \A j \in i..Len(frame_times) :
                frame_times[i] <= frame_times[j])
    /\ [][/\ \A w \in Workers :
                WorkerStamp(w) =>
                   frame_times' = LastN(Append(frame_times, clock), times_maxlen)
          /\ \A c \in Callers :
                FpsActual(c) =>
                   LET n == Len(frame_times)
                       r == loc'[c].ret
                   IN /\ Returned(c, "fps_actual")'
                      /\ r[1] >= 0 /\ r[2] > 0
                      /\ n < 2 => r[1] = 0
                      /\ (n >= 2 /\ frame_times[n] - frame_times[1] <= 0) => r[1] = 0
                      /\ (n >= 2 /\ frame_times[n] - frame_times[1] > 0) =>
                            r = <<n - 1, frame_times[n] - frame_times[1]>>
                      /\ frame_times = <<0, 1, 2>> => r = <<2, 2>>]_vars

\* fps_actual was read over the window 0, 1, 2 and returned 2/2.
C13_Witness ==
    /\ Returned(Other, "fps_actual")
    /\ frame_times = <<0, 1, 2>>
    /\ loc[Other].ret = <<2, 2>>

\* The caller is inside a stop() that found a live worker (lines 158-160).
InStopJoin(c) == pc[c] \in {"t_set", "t_join", "t_wait", "t_clear"}

(* C14, as claimed: from the moment stop() raises the stop signal until it
   returns, release() is called on the handle exactly once. *)
C14_Original ==
    pc[Main] = "t_clear" => gh[loc[Main].join].releases = 1

(* C14, amended: a worker that leaves its loop after observing the stop
   signal releases the handle exactly once after that (line 104) and ends,
   and a stop() that joined a running worker issues no release of its own.
   From the moment stop() raises the signal until it returns, release() is
   called once, or twice when a read has failed and its release (line 92)
   comes after the signal was raised and before the worker observes it (the
   release of line 92 is then followed by the one of line 104). *)
C14_ReleaseOnExit ==
    /\ [](pc[Main] = "t_clear" =>
             LET w == loc[Main].join
             IN /\ pc[w] = "dead"
                /\ ~cap.open
                /\ gh[w].releases \in {1, 2}
                /\ gh[w].releases = 2 => gh[w].wedge = "recovered")
    /\ [][/\ \A w \in Workers :
                (pc[w] = "w_final" /\ pc'[w] # "w_final") =>
                   /\ pc'[w] = "dead"
                   /\ gh'[w].releases = gh[w].releases + 1
                   /\ ~cap'.open
          /\ \A c \in Callers :
                (InStopJoin(c) /\ pc'[c] # pc[c]) => cap' = cap]_vars

\* stop() has joined a worker that released the handle at line 92 and again
\* at line 104 after the signal was raised.
C14_Witness ==
    /\ pc[Main] = "t_clear"
    /\ gh[loc[Main].join].releases = 2
    /\ nread > 0

(* C15: under every interleaving of start() and stop() calls made from
   several caller threads there is never more than one live worker, and
   whenever a worker is alive the _thread field refers to it. *)
C15_OneWorkerUnderRaces ==
    /\ Cardinality(Alive) <= 1
    /\ \A w \in Alive : thread = w

(* C16: native_resolution is written only by the worker thread; no operation
   executed on a caller thread changes its value. *)
C16_NativeWrittenByWorker ==
    [][native_resolution' # native_resolution =>
          \E w \in Workers : ApplyStore(w)]_vars

\* The thread is inside _apply_capture_settings.
Configuring(t) ==
    pc[t] \in {"a_cfg", "a_setw", "a_seth", "a_getw", "a_geth", "a_store"}

(* C17: the capture_resolution setter always stores the target; if it finds
   the handle open it returns with native_resolution equal to what the
   device reports, and once the setter and the worker's own configure step
   are both over native_resolution equals the resolution of the open,
   configured device; if it finds the handle closed it performs no set or
   get and returns. *)
C17_SetterKeepsNativeTrue ==
    /\ [](\A c \in Callers : pc[c] = "c_isopen" => capture_resolution \in CaptureChoices)
    /\ []((cap.open /\ configured /\ \A t \in Threads : ~Configuring(t)) =>
             native_resolution = cap.res)
    /\ [][\A c \in Callers :
             /\ ApplyStore(c) => cap.open /\ native_resolution' = cap.res
             /\ (SetCaptureIsOpened(c) /\ ~cap.open) =>
                   Returned(c, "capture_resolution")' /\ cap' = cap]_vars

(* C18: in every reachable state the frame-available flag being set implies
   that the frame buffer is not empty, so get_frame() never indexes an empty
   buffer; the flag, once set, is never cleared. *)
C18_FlagImpliesFrame ==
    /\ [](/\ frame_available => frame_buffer # <<>>
          /\ \A c \in Callers : pc[c] = "g_read" => frame_buffer # <<>>
          /\ \A c \in Callers : pc[c] # "raised")
    /\ [][/\ frame_available => frame_available'
          /\ Len(frame_buffer') >= Len(frame_buffer)]_vars

\* A reader is at line 119 while the capture, stopped after a frame was
\* published, is being started again.
C18_Witness ==
    /\ frame_available
    /\ pc[Other] = "g_read"
    /\ pc[Main] = "s_create"
    /\ Alive = {}

(* C19: with a single worker, the number of frames ever appended to the
   frame buffer exceeds the number of timestamps ever appended to the
   timestamp window by 0 or 1 in every reachable state, by 1 exactly while
   the worker is between the two appends, and the two are equal whenever no
   worker is alive. *)
C19_FramesAndStamps ==
    /\ Len(appended) - nstamps \in {0, 1}
    /\ Len(appended) - nstamps = Cardinality({w \in Workers : pc[w] \in {"w_set", "w_stamp"}})
    /\ Alive = {} => Len(appended) = nstamps

\* The stop signal was raised between a frame's append and its timestamp.
C19_Witness ==
    /\ stop_event
    /\ \E w \in Workers : pc[w] = "w_stamp"
    /\ Len(appended) = nstamps + 1
    /\ nstamps > 0

(* C20: no statement of stop() or of start() changes the frame buffer, the
   timestamp window, the frame-available flag or the stored resolutions, so
   once a frame has been published, after stop() returns and through a later
   start(), while no new frame is appended, the flag stays set, the buffer
   ends with the last frame appended, and get_frame() returns that frame and
   not None. *)
C20_StopKeepsFrames ==
    /\ [](npublished > 0 =>
             /\ frame_available
             /\ frame_buffer # <<>>
             /\ heap[Last(frame_buffer)].px = Last(appended))
    /\ [][/\ \A c \in Callers :
                LifecycleStep(c) =>
                   /\ UNCHANGED <<frame_buffer, frame_times, frame_available,
                                  capture_resolution, native_resolution,
                                  inference_resolution>>
                   /\ BufferImages' = BufferImages
          /\ \A c \in Callers :
                (GetFrameCheck(c) /\ npublished > 0) => pc'[c] = "g_read"
          /\ \A c \in Callers :
                GetFrameRead(c) =>
                   /\ Returned(c, "get_frame")'
                   /\ loc'[c].ret # None
                   /\ heap'[loc'[c].ret].px = heap[Last(frame_buffer)].px]_vars

\* The capture was stopped and is being started again; no worker is alive,
\* and a get_frame() has returned the last frame captured.
C20_Witness ==
    /\ pc[Main] = "s_launch"
    /\ Alive = {}
    /\ stop_event = FALSE
    /\ frame_available
    /\ Returned(Other, "get_frame")
    /\ loc[Other].ret # None
    /\ heap[loc[Other].ret].px = Last(appended)
    /\ Last(appended) = nread

=============================================================================
